---- MODULE Spec2Model ----
(***************************************************************************)
(* A model of the concurrent skip list of src/skiplist/skip_list.go, and   *)
(* of the stack of src/stack/stack.go.                                     *)
(*                                                                         *)
(* The heap is an arena of node slots; slot head is the sentinel, Nil is   *)
(* the nil pointer.  Every public operation is modelled from its code:     *)
(* the search loops, the splice and unlink loops, the level shrink, the    *)
(* node pool and the geometric level generator.  The specifications use    *)
(* the same operations:                                                    *)
(*   Spec      one caller, each call running from Lock to Unlock;          *)
(*   CfgSpec   the same, with the promotion probability adjusted between   *)
(*             the calls;                                                  *)
(*   ConcSpec  several goroutines, each call split at the points where the *)
(*             sync.RWMutex lets other goroutines in;                      *)
(*   FairSpec  the same under fair scheduling, with calls on one key;      *)
(*   AbortSpec a writing and a reading goroutine, two keys, the promotion  *)
(*             probability adjusted while they run.                        *)
(* StackSpec is the stack of src/stack/stack.go: the calls on one stack.   *)
(***************************************************************************)
EXTENDS Integers, FiniteSets, Sequences, TLC

\* ------------------------------------------------------------------ bounds
MAX_LAYER == 2          \* const MAX_LAYER (32 in the source), scaled down
MaxKey == 1             \* keys of Spec are 0..MaxKey
MaxVal == 2             \* values of Spec are 1..MaxVal
MaxNodes == MaxKey + 2    \* non-sentinel slots of the arena: one for each key and a spare
NumThreads == 2         \* goroutines of ConcSpec
MaxLost == 1            \* Inserts followed that raise the count and link nothing
MaxPushes == 4          \* Push calls of StackSpec
SMaxVal == 1            \* elements of StackSpec are 0..SMaxVal

\* --------------------------------------------------------------- constants
Nil == 0                \* the nil pointer
head == 1               \* the slot of s.head
Zero == 0               \* the zero value of T

Levels == 0..MAX_LAYER
NodeIds == 1..(MaxNodes + 1)
Keys == 0..MaxKey
Vals == 1..MaxVal
CKeys == {0}
CVals == {1}
LKeys == {0}
Threads == 1..NumThreads
NoThread == 0

\* LAYER_PROMOTION_PROB as a fraction num/den; the package default is 0.25.
\* The float64 that is no number, NaN, is 0/0.
DefaultProb == [num |-> 1, den |-> 4]
NaN == [num |-> 0, den |-> 0]
Probs == {[num |-> 0, den |-> 1], [num |-> 1, den |-> 4], [num |-> 1, den |-> 1], NaN}

IsNaN(p) == p.den = 0

\* The least and the greatest int (of 64 bits in the source, of the width of
\* the model's integers here).
MinInt == -2147483647 - 1
MaxInt == 2147483647

\* int(f) of a float64 f that is NaN: the conversion succeeds and its value
\* depends on the implementation (the least int on amd64, 0 on arm64, the
\* greatest int on riscv64).
IntOfNaN == {MinInt, 0, MaxInt}

\* Samples u of rand.Float64(), in [0,1), as fractions num/den.
USamples == {[num |-> 0, den |-> 1], [num |-> 1, den |-> 2],
             [num |-> 127, den |-> 128]}
CUSamples == USamples

\* Samples u with 1-u a power of the default probability: 1/4 and 1/16.
BSamples == {[num |-> 3, den |-> 4], [num |-> 15, den |-> 16]}

VARIABLES
    nodes,      \* the arena: slot -> skipListNode
    heap,       \* the slots allocated so far
    level,      \* s.level
    size,       \* s.size
    pool,       \* s.pool: the slots put back and not taken again
    prob,       \* LAYER_PROMOTION_PROB
    wholder,    \* s.mu: the goroutine that owns the writer side, or NoThread
    readers,    \* s.mu: the goroutines holding the read lock
    th,         \* each goroutine's call: position, operation, arguments, result
    amap,       \* history: key -> the value of the last completed write (Zero: absent)
    hist,       \* history: what the last call did to the node store
    stack,      \* the slice *s of a stack built by stack.New
    sres,       \* the last stack call and what it returned
    live,       \* history: the pushes not yet popped, <<ordinal, element>>
    pushes      \* history: the number of Push calls so far

vars == <<nodes, heap, level, size, pool, prob, wholder, readers, th, amap, hist,
          stack, sres, live, pushes>>
svars == <<nodes, heap, level, size, pool>>
lvars == <<svars, prob, wholder, readers, th, amap, hist>>
kvars == <<stack, sres, live, pushes>>

\* ------------------------------------------------------------------- nodes
ZeroNode == [forward |-> [i \in Levels |-> Nil], key |-> 0, level |-> 0, value |-> Zero]

\* A call's record.  pc: "idle", "call" (invoked, before Lock/RLock),
\* "wwait" (owns the writer side, waiting for the readers to leave),
\* "rblocked" (RLock blocked by a writer), "cs" (holds the lock),
\* "unlock" (results computed, deferred unlock pending).
NoRes == [val |-> Zero, ok |-> FALSE, n |-> 0, panicked |-> FALSE]
IdleThread == [pc |-> "idle", op |-> "none", key |-> 0, val |-> Zero, res |-> NoRes]

\* The record of the last call's use of the node store: the height of the
\* node it freed (0: none freed), and whether the node it linked came out of
\* the pool.
NoHist == [height |-> 0, reused |-> FALSE]

\* ------------------------------------------------------------------ search
\* The inner loop of the search at level i, from node x: forward while the
\* next key is smaller than k.  A walk of more than fuel steps is in a cycle
\* and never ends: Nil stands for it.
RECURSIVE Walk(_, _, _, _, _)
Walk(ns, x, i, k, fuel) ==
    LET f == ns[x].forward[i]
    IN  IF f # Nil /\ ns[f].key < k
        THEN IF fuel = 0 THEN Nil ELSE Walk(ns, f, i, k, fuel - 1)
        ELSE x

\* update[i] of the search for k: the outer loop from s.level down to i.
RECURSIVE PredAt(_, _, _, _)
PredAt(ns, lvl, k, i) ==
    IF i = lvl
    THEN Walk(ns, head, i, k, Cardinality(NodeIds))
    ELSE LET above == PredAt(ns, lvl, k, i + 1)
         IN  IF above = Nil THEN Nil ELSE Walk(ns, above, i, k, Cardinality(NodeIds))

\* The predecessor trail: update[i] for i <= s.level, nil above.
Search(ns, lvl, k) == [i \in Levels |-> IF i <= lvl THEN PredAt(ns, lvl, k, i) ELSE Nil]

\* The search loops end (no chain is cyclic below k).
Terminates(ns, lvl, k) == \A i \in 0..lvl : PredAt(ns, lvl, k, i) # Nil

\* (a variant: the step x = x.forward[0] is left out)
Candidate_NoStep(ns, lvl, k) == PredAt(ns, lvl, k, 0)

\* x = x.forward[0] after the search.
Candidate(ns, lvl, k) == ns[PredAt(ns, lvl, k, 0)].forward[0]

\* Get's result.
GetResult(ns, lvl, k) ==
    LET x == Candidate(ns, lvl, k)
    IN  IF x # Nil /\ ns[x].key = k
        THEN [NoRes EXCEPT !.val = ns[x].value, !.ok = TRUE]
        ELSE NoRes

\* ----------------------------------------------------------- level selector
\* The float64 comparisons p <= c and p >= c with an integer c: both are
\* false when p is NaN.
LessEq(p, c) == ~IsNaN(p) /\ p.num <= c * p.den
GreaterEq(p, c) == ~IsNaN(p) /\ p.num >= c * p.den

\* geometric's check: it panics when p <= 0 || p >= 1.
ValidProb(p) == ~(LessEq(p, 0) \/ GreaterEq(p, 1))

RECURSIVE Pow(_, _)
Pow(b, n) == IF n = 0 THEN 1 ELSE b * Pow(b, n - 1)

\* x / 2^k, rounded down.
RECURSIVE Shr(_, _)
Shr(x, k) == IF k = 0 \/ x = 0 THEN x ELSE Shr(x \div 2, k - 1)

\* The rounding of math.Log(1-u) / math.Log(p) in float64: each logarithm is
\* within one ulp and the division within half an ulp, so the quotient is
\* the exact one for some w with |w - (1-u)| <= (1-u) / 2^RoundBits
\* (2.5 * 2^-52 * |ln(1-u)| < 2^-45, as 1-u >= 2^-53).
RoundBits == 45

\* int(math.Ceil(math.Log(1-u) / math.Log(p))) for p in (0,1) and u in
\* [0,1), from n on.  Exactly it is the least n with p^n <= 1-u; the rounded
\* quotient gives every n >= 1 with p^n <= w < p^(n-1) for a w as near 1-u
\* as the rounding allows: n alone when 1-u is away from the powers of p, n
\* or n+1 when 1-u is p^n or next to it, as the build's math.Log rounds.
\* For u = 0 the quotient is 0 / Log(p) = -0 exactly, and for u > 0 it is
\* positive.  (l is p^n and r is 1-u, on the common denominator.)
RECURSIVE GeoFrom(_, _, _)
GeoFrom(p, u, n) ==
    LET l == Pow(p.num, n) * u.den
        r == (u.den - u.num) * Pow(p.den, n)
    IN  IF n = 0
        THEN IF l = r THEN {n} ELSE GeoFrom(p, u, n + 1)
        ELSE (IF l <= r + Shr(r, RoundBits) THEN {n} ELSE {})
             \cup (IF r <= l \/ r - l <= Shr(r - 1, RoundBits)
                   THEN GeoFrom(p, u, n + 1) ELSE {})

\* The values geometric(p) can return on the sample u, for a p that passes
\* the check.  With p NaN the quotient is NaN and so is its Ceil.
geometric(p, u) == IF IsNaN(p) THEN IntOfNaN ELSE GeoFrom(p, u, 0)

Min(a, b) == IF a <= b THEN a ELSE b

\* (a variant: the sample is not clamped to m)
defaultRngLevelGen_Unclamped(p, m, u) == geometric(p, u)

\* The values min(m, geometric(p)) can return on the sample u.
defaultRngLevelGen(p, m, u) == {Min(m, g) : g \in geometric(p, u)}

\* -------------------------------------------------------------- node store
\* pool.Get(): a pooled slot, or New(): the next slot never allocated
\* (sync.Pool may hand out a new node while it holds pooled ones).
FreshSlots == IF NodeIds \ heap = {} THEN {}
              ELSE {CHOOSE n \in NodeIds \ heap : \A m \in NodeIds \ heap : n <= m}
PoolGet == pool \cup FreshSlots

\* (a variant: the level field counts the levels, one more than the top index)
createNode_Count(ns, n, lvl, k, v) ==
    [ns EXCEPT ![n].level = lvl + 1, ![n].key = k, ![n].value = v]

createNode(ns, n, lvl, k, v) ==
    [ns EXCEPT ![n].level = lvl, ![n].key = k, ![n].value = v]

\* (a variant: the loop that clears node.forward is left out)
freeNode_KeepLinks(ns, n) ==
    [ns EXCEPT ![n].value = Zero, ![n].level = 0, ![n].key = 0]

freeNode(ns, n) ==
    [ns EXCEPT ![n] = [forward |-> [i \in Levels |-> Nil], key |-> 0,
                       level |-> 0, value |-> Zero]]

\* A node that nothing refers to any more is garbage: its slot is free,
\* zeroed memory again.
Collected(ns, n) == [ns EXCEPT ![n] = ZeroNode]

\* ------------------------------------------------------------ insert, delete
\* The Inserts so far that raised the count and linked nothing (the model
\* follows MaxLost of them: they raise s.size without end).
RECURSIVE Level0(_, _, _)
Level0(ns, x, fuel) ==
    IF x = Nil \/ fuel = 0 THEN 0 ELSE 1 + Level0(ns, ns[x].forward[0], fuel - 1)

Lost(ns, n) == n - Level0(ns, ns[head].forward[0], Cardinality(NodeIds))

\* The trail extended to the newly exposed levels (update[i] = s.head).
Extend(update, lvl, cur) ==
    [i \in Levels |-> IF i > cur /\ i <= lvl THEN head ELSE update[i]]

\* (a variant: the two assignments of the splice in the other order)
RECURSIVE Splice_Swapped(_, _, _, _, _)
Splice_Swapped(ns, update, x, i, lvl) ==
    IF i > lvl THEN ns
    ELSE LET n1 == [ns EXCEPT ![update[i]].forward[i] = x]
             n2 == [n1 EXCEPT ![x].forward[i] = n1[update[i]].forward[i]]
         IN  Splice_Swapped(n2, update, x, i + 1, lvl)

\* (a variant: the splice loop links level 0 and the top level lvl only)
RECURSIVE Splice_Ends(_, _, _, _, _)
Splice_Ends(ns, update, x, i, lvl) ==
    IF i > lvl THEN ns
    ELSE IF i > 0 /\ i < lvl THEN Splice_Ends(ns, update, x, i + 1, lvl)
    ELSE LET n1 == [ns EXCEPT ![x].forward[i] = ns[update[i]].forward[i]]
             n2 == [n1 EXCEPT ![update[i]].forward[i] = x]
         IN  Splice_Ends(n2, update, x, i + 1, lvl)

\* The splice loop, levels i..lvl.
RECURSIVE Splice(_, _, _, _, _)
Splice(ns, update, x, i, lvl) ==
    IF i > lvl THEN ns
    ELSE LET n1 == [ns EXCEPT ![x].forward[i] = ns[update[i]].forward[i]]
             n2 == [n1 EXCEPT ![update[i]].forward[i] = x]
         IN  Splice(n2, update, x, i + 1, lvl)

\* (a variant: the unlink loop leaves level 0 linked)
RECURSIVE Unlink_From1(_, _, _, _, _)
Unlink_From1(ns, update, x, i, lvl) ==
    IF i > lvl THEN ns
    ELSE IF i = 0 THEN Unlink_From1(ns, update, x, 1, lvl)
    ELSE IF ns[update[i]].forward[i] # x THEN ns
    ELSE Unlink_From1([ns EXCEPT ![update[i]].forward[i] = ns[x].forward[i]],
                      update, x, i + 1, lvl)

\* The unlink loop, levels i..lvl, with its early exit.
RECURSIVE Unlink(_, _, _, _, _)
Unlink(ns, update, x, i, lvl) ==
    IF i > lvl THEN ns
    ELSE IF ns[update[i]].forward[i] # x THEN ns
    ELSE Unlink([ns EXCEPT ![update[i]].forward[i] = ns[x].forward[i]],
                update, x, i + 1, lvl)

\* (a variant: "if" for "for", the level is lowered once at most)
Shrink_Once(ns, lvl) ==
    IF lvl > 0 /\ ns[head].forward[lvl] = Nil THEN lvl - 1 ELSE lvl

\* The level shrink loop.
RECURSIVE Shrink(_, _)
Shrink(ns, lvl) ==
    IF lvl > 0 /\ ns[head].forward[lvl] = Nil THEN Shrink(ns, lvl - 1) ELSE lvl

\* s.size++
IncSize(n) == n + 1

\* s.size--
DecSize(n) == n - 1

\* (a variant: no update in place, every Insert links a node)
InsertFound_Never(ns, x, k) == FALSE

\* Insert's test for an update in place: x != nil && x.key == key.
InsertFound(ns, x, k) == x # Nil /\ ns[x].key = k

\* (a variant: the key of the candidate is not compared)
DeleteMissing_NilOnly(ns, x, k) == x = Nil

\* Delete's test for "not found": x == nil || x.key != key.
DeleteMissing(ns, x, k) == x = Nil \/ ns[x].key # k

\* What a write leaves in the abstract map once it has returned: Insert's
\* value (nothing when it panicked), absence after Delete.
WriteEffect(c, m) ==
    IF c.op = "Insert"
    THEN IF c.res.panicked THEN m ELSE [m EXCEPT ![c.key] = c.val]
    ELSE IF c.op = "Delete" THEN [m EXCEPT ![c.key] = Zero]
    ELSE m

\* A call's record once its body has run: results set, position nxt.
Returned(t, op, k, v, res, nxt) ==
    [th EXCEPT ![t] = [pc |-> nxt, op |-> op, key |-> k, val |-> v, res |-> res]]

\* The body of Get, between RLock and the deferred RUnlock.
GetBody(t, k, nxt) ==
    /\ Terminates(nodes, level, k)
    /\ th' = Returned(t, "Get", k, Zero, GetResult(nodes, level, k), nxt)
    /\ hist' = NoHist
    /\ UNCHANGED <<svars, prob>>

\* The body of Size.
SizeBody(t, nxt) ==
    /\ th' = Returned(t, "Size", 0, Zero, [NoRes EXCEPT !.n = size], nxt)
    /\ hist' = NoHist
    /\ UNCHANGED <<svars, prob>>

\* The body of Insert, between Lock and the deferred Unlock.
InsertBody(t, k, v, us, nxt) ==
    /\ Terminates(nodes, level, k)
    /\ LET update == Search(nodes, level, k)
           x == nodes[update[0]].forward[0]
       IN  IF InsertFound(nodes, x, k)
           THEN /\ nodes' = [nodes EXCEPT ![x].value = v]
                /\ th' = Returned(t, "Insert", k, v, NoRes, nxt)
                /\ hist' = NoHist
                /\ UNCHANGED <<heap, level, size, pool, prob>>
           ELSE IF ~ValidProb(prob)
           THEN \* geometric panics: nothing has been written yet
                /\ th' = Returned(t, "Insert", k, v, [NoRes EXCEPT !.panicked = TRUE], nxt)
                /\ hist' = NoHist
                /\ UNCHANGED <<svars, prob>>
           ELSE \E u \in us : \E lvl \in defaultRngLevelGen(prob, MAX_LAYER, u) :
                \E n \in PoolGet :
                LET upd == IF lvl > level THEN Extend(update, lvl, level) ELSE update
                    created == createNode(nodes, n, lvl, k, v)
                    linked == Splice(created, upd, n, 0, lvl)
                IN  /\ lvl < 0 => Lost(nodes, size) < MaxLost
                    /\ level' = IF lvl > level THEN lvl ELSE level
                    \* with lvl < 0 the splice loop links nothing and the
                    \* node is lost when Insert returns
                    /\ nodes' = IF lvl < 0 THEN Collected(linked, n) ELSE linked
                    /\ pool' = pool \ {n}
                    /\ heap' = IF lvl < 0 THEN heap \ {n} ELSE heap \cup {n}
                    /\ size' = IncSize(size)
                    /\ th' = Returned(t, "Insert", k, v, NoRes, nxt)
                    /\ hist' = [NoHist EXCEPT !.reused = n \in pool]
                    /\ UNCHANGED prob

\* The body of Delete, between Lock and the deferred Unlock.
DeleteBody(t, k, nxt) ==
    /\ Terminates(nodes, level, k)
    /\ LET update == Search(nodes, level, k)
           x == nodes[update[0]].forward[0]
       IN  IF DeleteMissing(nodes, x, k)
           THEN /\ th' = Returned(t, "Delete", k, Zero, NoRes, nxt)
                /\ hist' = NoHist
                /\ UNCHANGED <<svars, prob>>
           ELSE LET unlinked == Unlink(nodes, update, x, 0, level)
                IN  /\ level' = Shrink(unlinked, level)
                    /\ size' = DecSize(size)
                    /\ nodes' = freeNode(unlinked, x)
                    /\ pool' = pool \cup {x}
                    /\ th' = Returned(t, "Delete", k, Zero, [NoRes EXCEPT !.ok = TRUE], nxt)
                    /\ hist' = [NoHist EXCEPT !.height = nodes[x].level]
                    /\ UNCHANGED <<heap, prob>>

\* ------------------------------------------------------------------- stack
SVals == 0..SMaxVal

\* What a stack call returned: Pop and Peek return (val, ok), Len returns n.
NoCall == [op |-> "none", val |-> Zero, ok |-> FALSE, n |-> 0]

\* stack.New(): make(stack[T], 0, capacity), a slice of length 0.
New ==
    /\ stack = <<>>
    /\ sres = NoCall
    /\ live = {}
    /\ pushes = 0

\* (a variant: the element taken is the first of the slice)
Top_First(s) == s[1]

\* (*s)[len(*s)-1]
Top(s) == s[Len(s)]

\* (*s)[:len(*s)-1]
Rest(s) == SubSeq(s, 1, Len(s) - 1)

\* The push not yet popped that was made last.
Latest(l) == CHOOSE e \in l : \A f \in l : f[1] <= e[1]

\* s.Push(t): *s = append(*s, t).
Push(t) ==
    /\ pushes < MaxPushes
    /\ stack' = Append(stack, t)
    /\ sres' = [NoCall EXCEPT !.op = "Push", !.val = t]
    /\ pushes' = pushes + 1
    /\ live' = live \cup {<<pushes + 1, t>>}
    /\ UNCHANGED lvars

\* s.Pop().
Pop ==
    /\ IF Len(stack) = 0
       THEN /\ sres' = [NoCall EXCEPT !.op = "Pop"]
            /\ UNCHANGED <<stack, live>>
       ELSE /\ sres' = [NoCall EXCEPT !.op = "Pop", !.val = Top(stack), !.ok = TRUE]
            /\ stack' = Rest(stack)
            /\ live' = live \ {Latest(live)}
    /\ UNCHANGED <<pushes, lvars>>

\* s.Peek().
Peek ==
    /\ sres' = IF Len(stack) = 0
               THEN [NoCall EXCEPT !.op = "Peek"]
               ELSE [NoCall EXCEPT !.op = "Peek", !.val = Top(stack), !.ok = TRUE]
    /\ UNCHANGED <<stack, live, pushes, lvars>>

\* s.Len().
StackLen ==
    /\ sres' = [NoCall EXCEPT !.op = "Len", !.n = Len(stack)]
    /\ UNCHANGED <<stack, live, pushes, lvars>>

StackNext ==
    \/ \E t \in SVals : Push(t)
    \/ Pop
    \/ Peek
    \/ StackLen

\* -------------------------------------------------------------------- Init
\* CreateSkipList: the head is a fresh node of level MAX_LAYER, key 0; p is
\* the value LAYER_PROMOTION_PROB has by then.
InitWith(p) ==
    /\ nodes = [n \in NodeIds |-> IF n = head THEN [ZeroNode EXCEPT !.level = MAX_LAYER]
                                  ELSE ZeroNode]
    /\ heap = {head}
    /\ level = 0
    /\ size = 0
    /\ pool = {}
    /\ prob = p
    /\ wholder = NoThread
    /\ readers = {}
    /\ th = [t \in Threads |-> IdleThread]
    /\ amap = [k \in Keys |-> Zero]
    /\ hist = NoHist
    /\ New

Init == InitWith(DefaultProb)

\* ------------------------------------------------- Spec: one caller, whole calls
\* The one goroutine that calls in Spec.
Caller == CHOOSE t \in Threads : \A u \in Threads : t <= u
LockFree == wholder = NoThread /\ readers = {}

\* s.Get(k): RLock, the body, RUnlock.
Get(k) ==
    /\ LockFree
    /\ GetBody(Caller, k, "idle")
    /\ UNCHANGED <<wholder, readers, amap, kvars>>

\* s.Size().
Size ==
    /\ LockFree
    /\ SizeBody(Caller, "idle")
    /\ UNCHANGED <<wholder, readers, amap, kvars>>

\* s.Insert(k, v): Lock, the body, Unlock (also when geometric panics).
Insert(k, v) ==
    /\ LockFree
    /\ InsertBody(Caller, k, v, USamples, "idle")
    /\ amap' = WriteEffect(th'[Caller], amap)
    /\ UNCHANGED <<wholder, readers, kvars>>

\* s.Delete(k).
Delete(k) ==
    /\ LockFree
    /\ DeleteBody(Caller, k, "idle")
    /\ amap' = WriteEffect(th'[Caller], amap)
    /\ UNCHANGED <<wholder, readers, kvars>>

\* An assignment to the package variable LAYER_PROMOTION_PROB.
SetProb(p) ==
    /\ prob' = p
    /\ p # prob
    /\ UNCHANGED <<svars, wholder, readers, th, amap, hist, kvars>>

Next ==
    \/ \E k \in Keys : Get(k)
    \/ Size
    \/ \E k \in Keys, v \in Vals : Insert(k, v)
    \/ \E k \in Keys : Delete(k)

Spec == Init /\ [][Next]_vars

\* StackSpec: the calls on one stack.
StackSpec == Init /\ [][StackNext]_vars

\* CfgSpec: one caller, and LAYER_PROMOTION_PROB adjusted between the calls.
CfgNext ==
    \/ \E k \in Keys : Get(k)
    \/ Size
    \/ \E k \in Keys, v \in CVals : Insert(k, v)
    \/ \E k \in Keys : Delete(k)
    \/ \E p \in Probs : SetProb(p)

CfgSpec == Init /\ [][CfgNext]_vars


\* ------------------------------------- ConcSpec: goroutines and the RWMutex
ReadOps == {"Get", "Size"}
WriteOps == {"Insert", "Delete"}

\* (a variant: Insert takes the read lock)
LockKind_InsertShared(op) == IF op = "Delete" THEN "write" ELSE "read"

\* (a variant: every operation takes the write lock)
LockKind_AllExclusive(op) == "write"

\* The side of s.mu an operation takes: RLock in Get and Size, Lock in
\* Insert and Delete.
LockKind(op) == IF op \in WriteOps THEN "write" ELSE "read"

\* (a variant: no defer, the panic leaves Insert without Unlock)
AfterBody_NoDefer(res) == IF res.panicked THEN "idle" ELSE "unlock"

\* Where a call goes once its body has run: every exit path, the panic of
\* geometric included, runs the deferred Unlock/RUnlock.
AfterBody(res) == "unlock"

\* A goroutine calls an operation.
Invoke(t, op, k, v) ==
    /\ th[t].pc = "idle"
    /\ th' = [th EXCEPT ![t] = [pc |-> "call", op |-> op, key |-> k, val |-> v,
                                res |-> NoRes]]
    /\ UNCHANGED <<svars, prob, wholder, readers, amap, hist, kvars>>

\* sync.RWMutex.RLock: granted unless a writer holds or waits for the lock.
RLockGranted(t) == wholder = NoThread

RLock(t) ==
    /\ th[t].pc = "call"
    /\ LockKind(th[t].op) = "read"
    /\ IF RLockGranted(t)
       THEN /\ readers' = readers \cup {t}
            /\ th' = [th EXCEPT ![t].pc = "cs"]
       ELSE /\ th' = [th EXCEPT ![t].pc = "rblocked"]
            /\ UNCHANGED readers
    /\ UNCHANGED <<svars, prob, wholder, amap, hist, kvars>>

\* sync.RWMutex.Lock: one writer at a time takes the writer side, which
\* stops new readers; it enters once the readers that hold the lock have left.
LockGranted(t) == readers = {}

Lock(t) ==
    /\ th[t].pc = "call"
    /\ LockKind(th[t].op) = "write"
    /\ wholder = NoThread
    /\ wholder' = t
    /\ th' = [th EXCEPT ![t].pc = IF LockGranted(t) THEN "cs" ELSE "wwait"]
    /\ UNCHANGED <<svars, prob, readers, amap, hist, kvars>>

\* The last reader's RUnlock wakes the waiting writer.
WriterEnter(t) ==
    /\ th[t].pc = "wwait"
    /\ LockGranted(t)
    /\ th' = [th EXCEPT ![t].pc = "cs"]
    /\ UNCHANGED <<svars, prob, wholder, readers, amap, hist, kvars>>

\* The body of the call of goroutine t, run while it holds the lock.
Body(t) ==
    /\ th[t].pc = "cs"
    /\ \E nxt \in {"unlock", "idle"} :
        /\ \/ th[t].op = "Get" /\ GetBody(t, th[t].key, nxt)
           \/ th[t].op = "Size" /\ SizeBody(t, nxt)
           \/ th[t].op = "Insert" /\ InsertBody(t, th[t].key, th[t].val, CUSamples, nxt)
           \/ th[t].op = "Delete" /\ DeleteBody(t, th[t].key, nxt)
        /\ nxt = AfterBody(th'[t].res)
    /\ UNCHANGED <<wholder, readers, amap, kvars>>

\* The deferred s.mu.RUnlock(), then the return.
RUnlock(t) ==
    /\ th[t].pc = "unlock"
    /\ LockKind(th[t].op) = "read"
    /\ readers' = readers \ {t}
    /\ th' = [th EXCEPT ![t] = IdleThread]
    /\ UNCHANGED <<svars, prob, wholder, amap, hist, kvars>>

\* The deferred s.mu.Unlock(), then the return (or the panic going on to the
\* caller): the readers blocked meanwhile are all let in.
Unlock(t) ==
    /\ th[t].pc = "unlock"
    /\ LockKind(th[t].op) = "write"
    /\ wholder' = NoThread
    /\ readers' = readers \cup {r \in Threads : th[r].pc = "rblocked"}
    /\ th' = [r \in Threads |->
                IF r = t THEN IdleThread
                ELSE IF th[r].pc = "rblocked" THEN [th[r] EXCEPT !.pc = "cs"]
                ELSE th[r]]
    /\ amap' = WriteEffect(th[t], amap)
    /\ UNCHANGED <<svars, prob, hist, kvars>>

\* The steps of the goroutines, calling with keys of ks.
ConcStep(ks) ==
    \/ \E t \in Threads, k \in ks : Invoke(t, "Get", k, Zero)
    \/ \E t \in Threads : Invoke(t, "Size", 0, Zero)
    \/ \E t \in Threads, k \in ks, v \in CVals : Invoke(t, "Insert", k, v)
    \/ \E t \in Threads, k \in ks : Invoke(t, "Delete", k, Zero)
    \/ \E t \in Threads : RLock(t)
    \/ \E t \in Threads : Lock(t)
    \/ \E t \in Threads : WriterEnter(t)
    \/ \E t \in Threads : Body(t)
    \/ \E t \in Threads : RUnlock(t)
    \/ \E t \in Threads : Unlock(t)

\* The goroutines start on a structure just built, whatever the promotion
\* probability was set to.
ConcInit == \E p \in Probs : InitWith(p)

ConcNext == ConcStep(CKeys)

ConcSpec == ConcInit /\ [][ConcNext]_vars

\* Scheduling: a goroutine that can run does run; sync.Mutex hands the writer
\* side to a goroutine that keeps waiting for it (starvation mode).
Fairness ==
    \A t \in Threads :
        /\ WF_vars(RLock(t))
        /\ SF_vars(Lock(t))
        /\ WF_vars(WriterEnter(t))
        /\ WF_vars(Body(t))
        /\ WF_vars(RUnlock(t))
        /\ WF_vars(Unlock(t))

\* Termination is checked with calls on one key.
LiveNext == ConcStep(LKeys)

FairSpec == ConcInit /\ [][LiveNext]_vars /\ Fairness

\* AbortSpec: a goroutine that calls Insert and Delete and a goroutine that
\* calls Get and Size, with two keys, and LAYER_PROMOTION_PROB adjusted while
\* they run.  (The assignment is not synchronised with Insert's read of the
\* variable: the read sees the old or the new value, which are the two
\* orders of the steps.)
AKeys == {0, 1}
AWriters == {t \in Threads : t = 1}
AReaders == {t \in Threads : t = 2}
AThreads == AWriters \cup AReaders

AbortNext ==
    \/ \E t \in AReaders, k \in AKeys : Invoke(t, "Get", k, Zero)
    \/ \E t \in AReaders : Invoke(t, "Size", 0, Zero)
    \/ \E t \in AWriters, k \in AKeys, v \in CVals : Invoke(t, "Insert", k, v)
    \/ \E t \in AWriters, k \in AKeys : Invoke(t, "Delete", k, Zero)
    \/ \E t \in AReaders : RLock(t)
    \/ \E t \in AWriters : Lock(t)
    \/ \E t \in AWriters : WriterEnter(t)
    \/ \E t \in AThreads : Body(t)
    \/ \E t \in AReaders : RUnlock(t)
    \/ \E t \in AWriters : Unlock(t)
    \/ \E p \in Probs : SetProb(p)

AbortSpec == Init /\ [][AbortNext]_vars


\* ------------------------------------------------------ the structure, read
\* The non-sentinel nodes met from x along forward[i], at most n of them.
RECURSIVE ChainFrom(_, _, _, _)
ChainFrom(ns, x, i, n) ==
    IF x = Nil \/ n = 0 THEN <<>>
    ELSE <<x>> \o ChainFrom(ns, ns[x].forward[i], i, n - 1)

\* The level-i chain from the sentinel (cut after as many nodes as the arena has).
Chain(ns, i) == ChainFrom(ns, ns[head].forward[i], i, Cardinality(NodeIds))

\* The level-i chain ends: nil is reached.
RECURSIVE EndsFrom(_, _, _, _)
EndsFrom(ns, x, i, n) ==
    IF x = Nil THEN TRUE
    ELSE IF n = 0 THEN FALSE
    ELSE EndsFrom(ns, ns[x].forward[i], i, n - 1)

ChainEnds(ns, i) == EndsFrom(ns, ns[head].forward[i], i, Cardinality(NodeIds))

Range(q) == {q[j] : j \in 1..Len(q)}

\* The nodes linked at some level.
Linked(ns) == UNION {Range(Chain(ns, i)) : i \in Levels}

\* Key k is in the structure: a node of the level-0 chain holds it.
Present(ns, k) == \E n \in Range(Chain(ns, 0)) : ns[n].key = k

\* A step of Spec or CfgSpec that is the call op(k): every step but SetProb
\* is one whole call, which leaves its record in th[Caller].
IsCall(op, k) ==
    /\ prob' = prob
    /\ th'[Caller].op = op
    /\ th'[Caller].key = k
    /\ th'[Caller].pc = "idle"

\* A Get result for an abstract-map entry.
ResOf(a) == IF a = Zero THEN NoRes ELSE [NoRes EXCEPT !.val = a, !.ok = TRUE]

\* ------------------------------------------------------------------ claims

\* C1 (round-trip): after any calls, for every key k whose last
\* completed Insert(k, v) was not followed by a Delete(k), Get(k) returns
\* (v, true); and a Get that has just returned such a key returned that pair.
C1_RoundTrip ==
    /\ \A k \in Keys : amap[k] # Zero => GetResult(nodes, level, k) = ResOf(amap[k])
    /\ (th[Caller].op = "Get" /\ amap[th[Caller].key] # Zero)
          => th[Caller].res = ResOf(amap[th[Caller].key])

\* No two linked nodes hold the same key.
UniqueKeys == \A a, b \in Linked(nodes) : a # b => nodes[a].key # nodes[b].key

\* Insert(k, v) of a present key: only the value of the node holding k changes.
InPlace(k, v) ==
    LET x == CHOOSE n \in Range(Chain(nodes, 0)) : nodes[n].key = k
    IN  /\ nodes' = [nodes EXCEPT ![x].value = v]
        /\ level' = level
        /\ size' = size
        /\ pool' = pool
        /\ heap' = heap

\* C2 (uniqueness): in every state no two linked nodes hold the same key, and
\* Insert(k, v) of a present key overwrites the value of its node in place:
\* no node is linked or taken from the store, no height and no forward link
\* changes, the current level and the size stay.
C2_Uniqueness ==
    /\ [](UniqueKeys)
    /\ [][\A k \in Keys, v \in Vals :
            (IsCall("Insert", k) /\ th'[Caller].val = v /\ Present(nodes, k))
                => InPlace(k, v)]_vars

\* An Insert has overwritten the value of a key that was present, in a full
\* structure.
C2_Witness ==
    /\ th[Caller].op = "Insert"
    /\ size = MaxKey + 1
    /\ \E n \in Range(Chain(nodes, 0)) :
          nodes[n].key = th[Caller].key /\ nodes[n].value = MaxVal
    /\ \E n \in Range(Chain(nodes, 0)) : nodes[n].value = 1

\* The keys along the level-i chain increase strictly.
Increasing(ns, i) ==
    LET c == Chain(ns, i)
    IN  \A j \in 1..(Len(c) - 1) : ns[c[j]].key < ns[c[j + 1]].key

\* C3 (order): in every state, at every level 0..MAX_LAYER the chain from
\* the sentinel along forward[i] ends and its keys increase strictly.
C3_Order == \A i \in Levels : ChainEnds(nodes, i) /\ Increasing(nodes, i)

\* After a Delete and later Inserts, chains of several nodes stand at level 0
\* and level 1, the top level is populated and a freed node is in the pool.
C3_Witness ==
    /\ th[Caller].op = "Insert"
    /\ pool # {}
    /\ Len(Chain(nodes, 0)) >= 2
    /\ Len(Chain(nodes, 1)) >= 2
    /\ Len(Chain(nodes, MAX_LAYER)) >= 1

\* C4 (deletion completeness): Delete(k) of a present key returns true; after
\* it Get(k) returns (zero value, false) and the size is one less.
C4_DeleteComplete ==
    [][\A k \in Keys :
        (IsCall("Delete", k) /\ Present(nodes, k))
           => /\ th'[Caller].res.ok
              /\ GetResult(nodes', level', k) = NoRes
              /\ size' = size - 1]_vars

\* A Delete has returned true on a structure of several levels, leaving keys.
C4_Witness ==
    /\ th[Caller].op = "Delete"
    /\ th[Caller].res.ok
    /\ size >= 1
    /\ level >= 1
    /\ ~Present(nodes, th[Caller].key)

\* C5 (Delete of an absent key): Delete(k) of a key that is not present
\* returns false and leaves the size, the current level, every node (so
\* every forward link) and the node pool as they were.
C5_DeleteAbsent ==
    [][\A k \in Keys :
        (IsCall("Delete", k) /\ ~Present(nodes, k))
           => /\ ~th'[Caller].res.ok
              /\ UNCHANGED <<size, level, nodes, pool, heap>>]_vars

\* A Delete has returned false on a structure of several levels that holds
\* a greater key, after an earlier Delete put a node in the pool.
C5_Witness ==
    /\ th[Caller].op = "Delete"
    /\ ~th[Caller].res.ok
    /\ pool # {}
    /\ level >= 1
    /\ \E b \in Range(Chain(nodes, 0)) : th[Caller].key < nodes[b].key

\* On an empty structure Delete returns false.
C5_EmptyWitness ==
    /\ th[Caller].op = "Delete"
    /\ ~th[Caller].res.ok
    /\ size = 0
    /\ nodes[head].forward[0] = Nil


\* Goroutine t is inside the locked section of its call.
InSection(t) == th[t].pc \in {"cs", "unlock"}

\* C6 (mutual exclusion): no goroutine is inside the locked section of Insert
\* or Delete while another goroutine is inside the locked section of any
\* operation; so a Get runs wholly before or wholly after each write.
C6_MutualExclusion ==
    \A t \in Threads :
        (InSection(t) /\ th[t].op \in WriteOps)
            => \A u \in Threads \ {t} : ~InSection(u)

\* A writer is in its section while a reader that called Get is kept out.
C6_Witness ==
    \E t, u \in Threads :
        /\ th[t].op = "Insert" /\ th[t].pc = "cs"
        /\ th[u].op = "Get" /\ th[u].pc = "rblocked"
        /\ size >= 1

\* C7 (visibility): a Get(k) that has read the structure returns the effect
\* of the last write to k that released the lock before it: (v, true) after
\* Insert(k, v), not-found after Delete(k).
C7_Visibility ==
    \A t \in Threads :
        (th[t].op = "Get" /\ th[t].pc = "unlock")
            => th[t].res = ResOf(amap[th[t].key])

\* A call of Insert or Delete holds, or waits for, the lock.
WriterActive ==
    \E u \in Threads : th[u].op \in WriteOps /\ th[u].pc \in {"wwait", "cs", "unlock"}

\* Goroutine t gets the lock of its call in one step.
Enters(t) == (RLock(t) \/ Lock(t)) /\ th'[t].pc = "cs"

\* C8 (readers share): while no Insert or Delete holds or waits for the lock,
\* no Get or Size waits, and one that asks for the lock gets it at once,
\* whatever readers hold it.
C8_ReadersShare ==
    \A t \in Threads :
        (th[t].op \in ReadOps /\ ~WriterActive)
            => /\ th[t].pc \notin {"rblocked", "wwait"}
               /\ th[t].pc = "call" => ENABLED Enters(t)

\* A Get and a Size hold the read lock at the same time.
C8_Witness ==
    \E t, u \in Threads :
        /\ th[t].op = "Get" /\ th[t].pc = "cs"
        /\ th[u].op = "Size" /\ th[u].pc = "cs"
        /\ readers = {t, u}

\* C9 (no call suspends for ever): under fair scheduling every call that was
\* invoked returns with its lock released.
C9_Termination ==
    \A t \in Threads :
        (th[t].pc # "idle") ~> (th[t].pc = "idle" /\ wholder # t /\ t \notin readers)

\* An Insert has panicked and is about to run its deferred Unlock while
\* another call is blocked on the lock.
C9_Witness ==
    \E t, u \in Threads :
        /\ th[t].op = "Insert" /\ th[t].pc = "unlock" /\ th[t].res.panicked
        /\ th[u].pc = "rblocked"

\* The promotion probability lies strictly in (0,1); NaN does not.
InUnit(p) == p.den > 0 /\ 0 < p.num /\ p.num < p.den

\* The promotion probability is outside (0,1).
OutsideUnit(p) == ~InUnit(p)

\* C10 (invalid configuration): with the promotion probability outside (0,1)
\* every Insert of a key that is not present panics in the level selector and
\* links nothing, and no step links a node.
C10_FailFast ==
    /\ [][\A k \in Keys :
            (IsCall("Insert", k) /\ OutsideUnit(prob) /\ ~Present(nodes, k))
               => /\ th'[Caller].res.panicked
                  /\ UNCHANGED <<nodes, level, size, pool, heap>>]_vars
    /\ [][(OutsideUnit(prob) /\ prob' = prob)
            => Linked(nodes') \subseteq Linked(nodes)]_vars

\* The sentinel as CreateSkipList made it, but for its forward links.
SentinelKept(ns) ==
    /\ ns[head].key = 0
    /\ ns[head].level = MAX_LAYER
    /\ ns[head].value = Zero

\* C11 (the sentinel): in every state the sentinel is not in the node pool,
\* is on no chain and keeps the key 0, the level MAX_LAYER and the zero value
\* it was made with; while key 0 is absent Get(0) finds nothing although the
\* sentinel's key field is 0, and a Get(0) or Delete(0) called then returns
\* not-found / false.
C11_Sentinel ==
    /\ [](/\ head \notin pool
          /\ head \notin Linked(nodes)
          /\ SentinelKept(nodes)
          /\ amap[0] = Zero => GetResult(nodes, level, 0) = NoRes)
    /\ [][(amap[0] = Zero /\ (IsCall("Get", 0) \/ IsCall("Delete", 0)))
            => /\ th'[Caller].res = NoRes
               /\ SentinelKept(nodes')]_vars

\* Delete(0) has returned false on a structure that holds another key and
\* whose pool holds a freed node, the sentinel's key being 0.
C11_Witness ==
    /\ th[Caller].op = "Delete"
    /\ th[Caller].key = nodes[head].key
    /\ ~th[Caller].res.ok
    /\ size >= 1
    /\ pool # {}

\* What Pop and Peek are to return: the element of the latest push not yet
\* popped, or (zero value, false) when there is none.
Expected(l) ==
    IF l = {} THEN [val |-> Zero, ok |-> FALSE]
    ELSE [val |-> Latest(l)[2], ok |-> TRUE]

\* The slice holds the elements pushed and not yet popped, in push order.
InPushOrder ==
    /\ Len(stack) = Cardinality(live)
    /\ \A e \in live : stack[Cardinality({f \in live : f[1] <= e[1]})] = e[2]

\* C12 (stack LIFO): the stack holds the elements pushed and not yet popped
\* in push order and Len returns their number; Pop returns (x, true) for the
\* latest push not yet popped, removes it and lowers Len by 1; Peek returns
\* the same pair and leaves the stack as it was; with nothing to pop both
\* return (zero value, false) and Len stays 0.
C12_StackLIFO ==
    /\ [](InPushOrder /\ (sres.op = "Len" => sres.n = Cardinality(live)))
    /\ [][sres'.op = "Pop"
            => /\ sres'.val = Expected(live).val
               /\ sres'.ok = Expected(live).ok
               /\ Len(stack') = IF live = {} THEN 0 ELSE Len(stack) - 1
               /\ live = {} => Len(stack) = 0]_vars
    /\ [][sres'.op = "Peek"
            => /\ sres'.val = Expected(live).val
               /\ sres'.ok = Expected(live).ok
               /\ stack' = stack
               /\ live = {} => Len(stack) = 0]_vars

\* After three pushes or more, a Pop has returned an element and left a
\* different element on top.
C12_Witness ==
    /\ sres.op = "Pop"
    /\ sres.ok
    /\ pushes >= 3
    /\ Len(stack) >= 1
    /\ Top(stack) # sres.val

\* The greatest height among the nodes of S (0 when S is empty).
MaxHeight(ns, S) ==
    IF S = {} THEN 0
    ELSE LET top == CHOOSE n \in S : \A m \in S : ns[m].level <= ns[n].level
         IN  ns[top].level

\* The node of the level-0 chain that holds key k.
NodeOf(ns, k) == CHOOSE n \in Range(Chain(ns, 0)) : ns[n].key = k

\* C13 (current level): in every state between calls the current level is
\* the greatest height of a linked non-sentinel node, 0 for the empty
\* structure: the sentinel's forward[j] is nil above it and non-nil at it
\* unless the structure is empty; a Delete that removes a node leaves the
\* current level at the greatest height of the nodes that remain.
C13_CurrentLevel ==
    /\ [](/\ level = MaxHeight(nodes, Linked(nodes))
          /\ \A j \in Levels : j > level => nodes[head].forward[j] = Nil
          /\ IF nodes[head].forward[0] = Nil
             THEN level = 0 /\ Linked(nodes) = {}
             ELSE nodes[head].forward[level] # Nil)
    /\ [][\A k \in Keys :
            (IsCall("Delete", k) /\ Present(nodes, k))
               => level' = MaxHeight(nodes, Linked(nodes) \ {NodeOf(nodes, k)})]_vars

\* A Delete has removed the only node of the top level, higher than every
\* node that remains, and the current level came down to a level above 0.
C13_Witness ==
    /\ th[Caller].op = "Delete"
    /\ th[Caller].res.ok
    /\ hist.height > level
    /\ level >= 1
    /\ size >= 1

\* Node n is on the level-i chain from the sentinel.
OnChain(ns, n, i) == n \in Range(Chain(ns, i))

\* C14 (nested levels, complete unlink): in every state a linked node of
\* height h is on the level-i chain exactly for the levels i in 0..h; and
\* after Delete(k) has returned true the node that held k is on no chain at
\* any level 0..MAX_LAYER.
C14_Nested ==
    /\ [](\A n \in Linked(nodes) : \A i \in Levels :
             OnChain(nodes, n, i) <=> i <= nodes[n].level)
    /\ [][\A k \in Keys :
            (IsCall("Delete", k) /\ th'[Caller].res.ok)
               => /\ Present(nodes, k)
                  /\ NodeOf(nodes, k) \notin Linked(nodes')]_vars

\* A Delete has removed a node whose height was at least 1 and below the
\* current level (the unlink loop left by its early exit), other nodes
\* remaining.
C14_Witness ==
    /\ th[Caller].op = "Delete"
    /\ th[Caller].res.ok
    /\ hist.height >= 1
    /\ hist.height < level
    /\ size >= 1

\* The nodes other than the sentinel.
Inner == NodeIds \ {head}

\* C15 as stated (node height bound): the height of every non-sentinel node
\* is in 0..MAX_LAYER-1, no node has the height MAX_LAYER.
C15_Original == \A n \in Inner : nodes[n].level \in 0..(MAX_LAYER - 1)

\* C15 as amended: in every state the height of every non-sentinel node is in
\* 0..MAX_LAYER, the bound MAX_LAYER included.
C15_HeightBound == \A n \in Inner : nodes[n].level \in 0..MAX_LAYER

\* An Insert has linked a node of height MAX_LAYER next to a lower node.
C15_Witness ==
    /\ th[Caller].op = "Insert"
    /\ \E n \in Linked(nodes) :
          /\ nodes[n].key = th[Caller].key
          /\ nodes[n].level = MAX_LAYER
          /\ nodes[head].forward[MAX_LAYER] = n
    /\ \E m \in Linked(nodes) : nodes[m].level < MAX_LAYER

\* The heights the level selector can return under promotion probability p.
Heights(p) ==
    UNION {defaultRngLevelGen(p, MAX_LAYER, u) : u \in USamples \cup BSamples}

\* C16 (height saturation): under a valid promotion probability every height
\* the level selector returns is in 0..MAX_LAYER, a geometric sample above
\* MAX_LAYER giving MAX_LAYER and any other one itself, however the quotient
\* of the logarithms is rounded; an Insert under a valid probability is never
\* rejected; the current level is in 0..MAX_LAYER and every forward array
\* has the slots 0..MAX_LAYER, which hold all the links of the nodes.
C16_Saturation ==
    /\ [](/\ InUnit(prob)
             => /\ Heights(prob) \subseteq 0..MAX_LAYER
                /\ \A u \in USamples \cup BSamples :
                      \A g \in geometric(prob, u) :
                         (IF g > MAX_LAYER THEN MAX_LAYER ELSE g)
                            \in defaultRngLevelGen(prob, MAX_LAYER, u)
          /\ level \in 0..MAX_LAYER
          /\ \A n \in NodeIds : DOMAIN nodes[n].forward = 0..MAX_LAYER
          /\ \A n \in Linked(nodes) : nodes[head].forward[nodes[n].level] # Nil)
    /\ [][\A k \in Keys :
            (IsCall("Insert", k) /\ InUnit(prob)) => ~th'[Caller].res.panicked]_vars

\* Under a probability whose samples exceed MAX_LAYER, and for which a
\* sample lies where the rounding decides between two heights, an Insert has
\* raised the current level to MAX_LAYER from below.
C16_Witness ==
    /\ th[Caller].op = "Insert"
    /\ ~th[Caller].res.panicked
    /\ InUnit(prob)
    /\ \E u \in USamples : \A g \in geometric(prob, u) : g > MAX_LAYER
    /\ \E u \in BSamples : Cardinality(geometric(prob, u)) = 2
    /\ level = MAX_LAYER
    /\ Len(Chain(nodes, MAX_LAYER)) = 1
    /\ nodes[nodes[head].forward[MAX_LAYER]].key = th[Caller].key
    /\ size >= 2

\* Node n is as freeNode leaves a node: value cleared, every forward link
\* nil, height and key 0.
Reset(ns, n) ==
    /\ ns[n].value = Zero
    /\ \A i \in Levels : ns[n].forward[i] = Nil
    /\ ns[n].level = 0
    /\ ns[n].key = 0

\* C17 (recycling leaks nothing): in every state every node of the pool is
\* reset and is on no chain; every linked node has nil forward links above
\* its height; and a node that the last Insert took from the pool and linked
\* holds that Insert's key and value.
C17_NoLeak ==
    /\ \A n \in pool : Reset(nodes, n) /\ n \notin Linked(nodes)
    /\ \A n \in Linked(nodes) :
          \A i \in Levels : i > nodes[n].level => nodes[n].forward[i] = Nil
    /\ hist.reused
          => /\ th[Caller].op = "Insert"
             /\ Present(nodes, th[Caller].key)
                  => nodes[NodeOf(nodes, th[Caller].key)].value = th[Caller].val

\* An Insert has linked a node from the pool at height 0, before a node of a
\* greater key and below the current level, the pool still holding a node.
C17_Witness ==
    /\ hist.reused
    /\ th[Caller].op = "Insert"
    /\ Present(nodes, th[Caller].key)
    /\ nodes[NodeOf(nodes, th[Caller].key)].level = 0
    /\ nodes[NodeOf(nodes, th[Caller].key)].forward[0] # Nil
    /\ level >= 1
    /\ pool # {}

\* C18 (size): in every state between calls the size counter is the number
\* of nodes on the level-0 chain, is not negative and is 0 exactly when the
\* sentinel's forward[0] is nil; and a Size call returns that number.
C18_Size ==
    /\ size = Len(Chain(nodes, 0))
    /\ size >= 0
    /\ size = 0 <=> nodes[head].forward[0] = Nil
    /\ th[Caller].op = "Size" => th[Caller].res.n = Len(Chain(nodes, 0))

\* The keys the abstract map holds.
AbsKeys == {k \in Keys : amap[k] # Zero}

\* The level-0 chain lists the abstract map: its keys, each once and in
\* increasing order, each with the map's value.
ListsMap ==
    LET c == Chain(nodes, 0)
    IN  /\ Len(c) = Cardinality(AbsKeys)
        /\ {nodes[n].key : n \in Range(c)} = AbsKeys
        /\ \A j \in 1..(Len(c) - 1) : nodes[c[j]].key < nodes[c[j + 1]].key
        /\ \A n \in Range(c) : nodes[n].value = amap[nodes[n].key]

\* C19 (refinement of a map): run beside a plain map under the same calls,
\* whatever heights the Inserts draw, the level-0 chain lists the map's keys
\* in increasing order with the map's values and the size is the map's; and
\* every Get returns the map's entry, every Delete returns whether the map
\* held the key, every Size returns the number of the map's keys (an Insert
\* returns no value).
C19_Refinement ==
    /\ [](ListsMap /\ size = Cardinality(AbsKeys))
    /\ [][LET c == th'[Caller]
          IN  prob' = prob
                => /\ c.op = "Get" => c.res = ResOf(amap[c.key]) /\ amap' = amap
                   /\ c.op = "Delete" => c.res.ok = (amap[c.key] # Zero)
                   /\ c.op = "Size" => c.res.n = Cardinality(AbsKeys) /\ amap' = amap
                   /\ c.op = "Insert" => [c.res EXCEPT !.panicked = FALSE] = NoRes]_vars

\* The call of goroutine t has been aborted by the panic of geometric.
Aborted(t) == th[t].op = "Insert" /\ th[t].res.panicked

\* C20 (an aborted Insert is atomic): an Insert aborts only for a key that is
\* absent, under a promotion probability outside (0,1); the step that aborts
\* it leaves every node and link, the current level, the size and the node
\* pool as they were and goes on to the deferred Unlock, holding the lock
\* till then; when it returns the writer side is free, the readers it kept
\* waiting are let in, and the structure is as it was, so that a Get that
\* follows returns what the structure holds; and the lock is never left held
\* by a call that has returned.
C20_AbortAtomic ==
    /\ [](\A t \in Threads :
            /\ Aborted(t)
                 => /\ th[t].pc = "unlock"
                    /\ wholder = t
                    /\ ~Present(nodes, th[t].key)
            /\ th[t].pc = "idle" => wholder # t /\ t \notin readers
            /\ (th[t].op = "Get" /\ th[t].pc = "unlock")
                 => th[t].res = GetResult(nodes, level, th[t].key))
    /\ [][\A t \in Threads :
            /\ (~Aborted(t) /\ Aborted(t)')
                 => /\ OutsideUnit(prob)
                    /\ UNCHANGED <<nodes, heap, level, size, pool>>
            /\ (Aborted(t) /\ th'[t].pc = "idle")
                 => /\ wholder' = NoThread
                    /\ \A u \in Threads : th[u].pc = "rblocked" => th'[u].pc = "cs"
                    /\ UNCHANGED <<nodes, heap, level, size, pool, amap>>]_vars

\* An Insert has been aborted on a structure that holds a key and a pooled
\* node, while another goroutine's Get of the held key waits to read.
C20_Witness ==
    \E t, u \in Threads :
        /\ Aborted(t)
        /\ th[u].op = "Get" /\ th[u].pc = "rblocked"
        /\ Present(nodes, th[u].key)
        /\ pool # {}

====
